---- MODULE Spec2Model ----
(***************************************************************************)
(* A model of package mproc: the single-run controller (Run), the worker   *)
(* loop controller (RunWorker), the init and cleanup stages (procInit,     *)
(* procCleanup), the signal listener goroutine (catchSignals), the package *)
(* globals (signals, quit, gl) and the context tokens they create.         *)
(*                                                                         *)
(* An invocation i of Run/RunWorker is a foreground thread (pc[i]) plus    *)
(* the listener goroutine it spawns (lpc[i]).  The work unit's Init, Run   *)
(* and Cleanup are user code: each is entered by one action and returns by *)
(* another with an outcome drawn from Outcomes.  The actions are written   *)
(* for any invocation i; Spec is the process of the example programs,      *)
(* whose main goroutine makes one call.  ConfigSpec adds calls of          *)
(* SetSignals during that call, SerialSpec is a process that calls Run     *)
(* several times with one work unit, and CallersSpec one whose goroutines  *)
(* call Run and RunWorker at the same time.                                *)
(***************************************************************************)
EXTENDS Integers, Sequences, FiniteSets, TLC

\* ---------------------------------------------------------------- bounds
MaxInv == 2       \* invocations of Run / RunWorker the state has records for
MaxIter == 2      \* loop iterations one RunWorker invocation may start
MaxSignals == 2   \* signals the environment sends to the process

Invs == 1..MaxInv

\* ---------------------------------------------------------------- errors
\* An error value is the chain of messages met by following Unwrap, the
\* outermost first; the nil error is the empty chain.
Nil == << >>
Canceled == << "context canceled" >>
DeadlineExceeded == << "context deadline exceeded" >>
Failure == << "work unit failure" >>
WrappedCanceled == << "work unit stopped" >> \o Canceled

\* fmt.Errorf("<msg> - %w", err)
Wrap(msg, err) == << msg >> \o err

InitMsg == "mproc: failed init"
CleanupMsg == "mproc: failed cleanup"

\* errors.Is(err, target): some error of err's Unwrap chain equals target.
ErrorsIs(err, target) ==
    \E k \in 1..Len(err) : SubSeq(err, k, Len(err)) = target

\* What a work unit's Init, Run or Cleanup may return.
Outcomes == {Nil, Canceled, DeadlineExceeded, Failure, WrappedCanceled}

\* ---------------------------------------------------------------- signals
SIGINT == "SIGINT"
SIGTERM == "SIGTERM"
DefaultSignals == {SIGINT, SIGTERM}
\* The signals the environment sends
SentSignals == {SIGINT, SIGTERM}
NoSig == "none"
NoChan == 0
Nobody == 0

\* ---------------------------------------------------------------- work units
\* The optional interfaces a work unit implements.
Impls == [init : BOOLEAN, cleanup : BOOLEAN, runTimeout : BOOLEAN, onSignal : BOOLEAN]
NoImpl == [init |-> FALSE, cleanup |-> FALSE, runTimeout |-> FALSE, onSignal |-> FALSE]

\* ---------------------------------------------------------------- tokens
\* A context: st is "none" (not created), "live", "canceled" or "deadline";
\* "root" stands for the root context itself (runCtx = ctx).  parent is
\* "root" for a context derived from the invocation's root context and
\* "background" for one derived from context.Background().
Kinds == {"init", "run", "loop", "cleanup"}
NoTok == [st |-> "none", parent |-> "background"]
RootAlias == [st |-> "root", parent |-> "root"]

\* ctx.Err() of a context state
StErr(st) == IF st = "canceled" THEN Canceled
             ELSE IF st = "deadline" THEN DeadlineExceeded
             ELSE Nil

\* A CancelFunc: the first cancellation or expiry decides Err().
CancelSt(st) == IF st = "live" THEN "canceled" ELSE st

VARIABLES
    gl,              \* the global lock: the invocation holding it, or Nobody
    signals,         \* the package variable signals
    quit,            \* the package variable quit: a channel id, or NoChan
    handlers,        \* handlers[c]: the signals channel c is registered for
    chanBuf,         \* chanBuf[c]: the signal buffered in channel c, or NoSig
    alive,           \* FALSE once a signal's default action ended the process
    sent,            \* number of signals sent so far
    mode,            \* mode[i]: "none", "Run" or "RunWorker"
    impl,            \* impl[i]: the work unit's capabilities
    pc,              \* pc[i]: position of the foreground thread
    ret,             \* ret[i]: the error returned by the invocation
    ctx,             \* ctx[i]: state of the root context
    tok,             \* tok[i][k]: the phase contexts
    initCalls,       \* number of calls of Init, Run, Cleanup, OnSignal
    runCalls,
    cleanupCalls,
    onSignalCalls,
    lateRuns,        \* lateRuns[i]: iterations started with the root context canceled
    initErr,         \* what Init returned
    runErrs,         \* what the calls of Run returned, in order
    cleanupErr,      \* what Cleanup returned
    lpc,             \* lpc[i]: position of the listener goroutine
    lchan,           \* lchan[i]: the channel the listener receives from
    lsig             \* lsig[i]: the signal the listener received

vars == << gl, signals, quit, handlers, chanBuf, alive, sent, mode, impl, pc,
           ret, ctx, tok, initCalls, runCalls, cleanupCalls, onSignalCalls,
           lateRuns, initErr, runErrs, cleanupErr, lpc, lchan, lsig >>

globalVars == << signals, quit, handlers, chanBuf, alive, sent >>
listenerVars == << lpc, lchan, lsig, onSignalCalls >>
callVars == << initCalls, runCalls, cleanupCalls, lateRuns >>
outVars == << initErr, runErrs, cleanupErr >>

\* The state of a process none of whose goroutines has called the package.
Gone ==
    /\ gl = Nobody
    /\ signals = DefaultSignals
    /\ quit = NoChan
    /\ handlers = [c \in Invs |-> {}]
    /\ chanBuf = [c \in Invs |-> NoSig]
    /\ mode = [i \in Invs |-> "none"]
    /\ impl = [i \in Invs |-> NoImpl]
    /\ pc = [i \in Invs |-> "idle"]
    /\ ret = [i \in Invs |-> Nil]
    /\ ctx = [i \in Invs |-> "none"]
    /\ tok = [i \in Invs |-> [k \in Kinds |-> NoTok]]
    /\ initCalls = [i \in Invs |-> 0]
    /\ runCalls = [i \in Invs |-> 0]
    /\ cleanupCalls = [i \in Invs |-> 0]
    /\ onSignalCalls = [i \in Invs |-> 0]
    /\ lateRuns = [i \in Invs |-> 0]
    /\ initErr = [i \in Invs |-> Nil]
    /\ runErrs = [i \in Invs |-> << >>]
    /\ cleanupErr = [i \in Invs |-> Nil]
    /\ lpc = [i \in Invs |-> "none"]
    /\ lchan = [i \in Invs |-> NoChan]
    /\ lsig = [i \in Invs |-> NoSig]

Init ==
    /\ alive = TRUE
    /\ sent = 0
    /\ Gone

\* ---------------------------------------------------------------- helpers
\* context.WithTimeout(parent, d): a context derived from the root context
\* is born canceled when the root already is.
WithTimeout(parent, i) ==
    IF parent = "root"
    THEN [st |-> ctx[i], parent |-> "root"]
    ELSE [st |-> "live", parent |-> "background"]

\* initCtx of procInit
InitCtx(i) == WithTimeout("root", i)

\* runCtx of Run
RunCtx(i) == IF impl[i].runTimeout THEN WithTimeout("root", i) ELSE RootAlias

\* A loop context derived from the root context, as runCtx is
LoopCtxFromRoot(i) == WithTimeout("root", i)

\* loopCtx of RunWorker
LoopCtx(i) == WithTimeout("background", i)

\* A cleanup context derived from the root context, as initCtx is
CleanupCtxFromRoot(i) == WithTimeout("root", i)

\* ctx of procCleanup
CleanupCtx(i) == WithTimeout("background", i)

\* Err() of phase context k of invocation i
TokErr(i, k) == IF tok[i][k].st = "root" THEN StErr(ctx[i]) ELSE StErr(tok[i][k].st)

\* The phase contexts after the root context was canceled: canceling a
\* parent cancels its live children.
CancelChildren(toks) ==
    [k \in Kinds |-> IF toks[k].parent = "root" /\ toks[k].st = "live"
                     THEN [toks[k] EXCEPT !.st = "canceled"]
                     ELSE toks[k]]

\* The phase contexts after the CancelFunc of context k was called.
CancelTok(toks, k) == [toks EXCEPT ![k].st = CancelSt(toks[k].st)]

\* The phase contexts after the function holding context k returned.
Release(toks, k) == [toks EXCEPT ![k] = NoTok]

\* A procInit that lets an Init stopped by cancellation pass
ProcInitResultLenient(err) ==
    IF err # Nil /\ ~ErrorsIs(err, Canceled) THEN Wrap(InitMsg, err) ELSE Nil

\* procInit's result for what Init returned
ProcInitResult(err) == IF err # Nil THEN Wrap(InitMsg, err) ELSE Nil

\* A procCleanup that returns Cleanup's error as it is
ProcCleanupResultBare(err) == err

\* procCleanup's result for what Cleanup returned
ProcCleanupResult(err) == IF err # Nil THEN Wrap(CleanupMsg, err) ELSE Nil

\* A Run for which every error of the run stage is fatal
RunFatalAny(err) == err # Nil

\* A Run that also lets an expired deadline pass
RunFatalNoDeadline(err) ==
    err # Nil /\ ~ErrorsIs(err, Canceled) /\ ~ErrorsIs(err, DeadlineExceeded)

\* Run: the run stage's error ends the invocation
RunFatal(err) == err # Nil /\ ~ErrorsIs(err, Canceled)

\* A Run that wraps the run stage's error as the other stages do
RunErrorWrapped(err) == Wrap("mproc: failed run", err)

\* Run: the error returned for the run stage's fatal error
RunError(err) == err

\* A loop that goes on after context.Canceled
LoopBreaksUnlessCanceled(err) == err # Nil /\ ~ErrorsIs(err, Canceled)

\* RunWorker: an iteration's error ends the loop
LoopBreaks(err) == err # Nil

\* A RunWorker with the test for context.Canceled inverted
LoopFatalInverted(err) == err # Nil /\ ErrorsIs(err, Canceled)

\* A RunWorker that also lets an expired deadline pass
LoopFatalNoDeadline(err) ==
    err # Nil /\ ~ErrorsIs(err, Canceled) /\ ~ErrorsIs(err, DeadlineExceeded)

\* RunWorker: the loop's error ends the invocation
LoopFatal(err) == err # Nil /\ ~ErrorsIs(err, Canceled)

\* A RunWorker that wraps the loop's error as the other stages do
LoopErrorWrapped(err) == Wrap("mproc: failed run", err)

\* RunWorker: the error returned for the loop's fatal error
LoopError(err) == err

\* A catchSignals without the deferred cancel()
ListenerCancelNone(i) == ctx[i]

\* catchSignals: the root context after the deferred cancel()
ListenerCancelCtx(i) == CancelSt(ctx[i])

\* A loop without the select on ctx.Done()
OuterDoneNever(i) == FALSE

\* RunWorker: the select on ctx.Done() between iterations
OuterDone(i) == ctx[i] = "canceled"

\* The stage that follows procInit
AfterInit(i) == IF mode[i] = "Run" THEN "runStage" ELSE "loopTop"

LastRunErr(i) == runErrs[i][Len(runErrs[i])]

\* A return without the deferred gl.Unlock()
ReturnHoldingLock(i, e, toks) ==
    /\ ret' = [ret EXCEPT ![i] = e]
    /\ pc' = [pc EXCEPT ![i] = "done"]
    /\ tok' = [tok EXCEPT ![i] = CancelChildren(CancelTok(toks, "run"))]
    /\ ctx' = [ctx EXCEPT ![i] = CancelSt(ctx[i])]
    /\ gl' = gl

\* return e: the deferred cancelRun(), cancel() and gl.Unlock() run.
Return(i, e, toks) ==
    /\ ret' = [ret EXCEPT ![i] = e]
    /\ pc' = [pc EXCEPT ![i] = "done"]
    /\ tok' = [tok EXCEPT ![i] = CancelChildren(CancelTok(toks, "run"))]
    /\ ctx' = [ctx EXCEPT ![i] = CancelSt(ctx[i])]
    /\ gl' = Nobody

\* ---------------------------------------------------------------- callers
\* A goroutine of the program calls Run or RunWorker and reaches gl.Lock().
Call(i) ==
    /\ alive
    /\ pc[i] = "idle"
    /\ \A j \in Invs : j < i => pc[j] # "idle"
    /\ pc' = [pc EXCEPT ![i] = "lock"]
    /\ UNCHANGED << gl, mode, impl, ret, ctx, tok >>
    /\ UNCHANGED << globalVars, listenerVars, callVars, outVars >>

\* The record of invocation j once another invocation has started: what its
\* listener goroutine still uses is kept, the rest is dropped.
Kept(j, f, empty) == [f EXCEPT ![j] = IF pc[j] = "done" THEN empty ELSE f[j]]

RECURSIVE KeptAll(_, _, _)
KeptAll(js, f, empty) ==
    IF js = {} THEN f
    ELSE LET j == CHOOSE x \in js : TRUE
         IN KeptAll(js \ {j}, Kept(j, f, empty), empty)

\* A gl.Lock() that never blocks
GuardFreeAlways == TRUE

\* gl.Lock() returns only while no invocation holds gl.
GuardFree == gl = Nobody

\* gl.Lock() returns; ctx, cancel := context.WithCancel(context.Background());
\* go catchSignals(cancel, impl).  m is the function called and u its
\* argument, which nothing reads before this point.
\* The count of OnSignal calls starts anew with every invocation.
Acquire(i, m, u) ==
    /\ alive
    /\ pc[i] = "lock"
    /\ GuardFree
    /\ m = "RunWorker" => u.runTimeout
    /\ gl' = i
    /\ mode' = [KeptAll(Invs, mode, "none") EXCEPT ![i] = m]
    /\ impl' = [[j \in Invs |-> IF pc[j] = "done"
                               THEN [NoImpl EXCEPT !.onSignal = impl[j].onSignal]
                               ELSE impl[j]] EXCEPT ![i] = u]
    /\ ctx' = [ctx EXCEPT ![i] = "live"]
    /\ lpc' = [lpc EXCEPT ![i] = "make"]
    /\ pc' = [KeptAll(Invs, pc, "gone") EXCEPT ![i] = "procInit"]
    /\ ret' = KeptAll(Invs, ret, Nil)
    /\ tok' = KeptAll(Invs, tok, [k \in Kinds |-> NoTok])
    /\ initCalls' = KeptAll(Invs, initCalls, 0)
    /\ runCalls' = KeptAll(Invs, runCalls, 0)
    /\ cleanupCalls' = KeptAll(Invs, cleanupCalls, 0)
    /\ lateRuns' = KeptAll(Invs, lateRuns, 0)
    /\ onSignalCalls' = [j \in Invs |-> 0]
    /\ initErr' = KeptAll(Invs, initErr, Nil)
    /\ runErrs' = KeptAll(Invs, runErrs, << >>)
    /\ cleanupErr' = KeptAll(Invs, cleanupErr, Nil)
    /\ UNCHANGED << lchan, lsig >>
    /\ UNCHANGED globalVars

\* procInit: the type assertion, the init context and the call of Init
ProcInit(i) ==
    /\ alive
    /\ pc[i] = "procInit"
    /\ IF impl[i].init
       THEN /\ tok' = [tok EXCEPT ![i]["init"] = InitCtx(i)]
            /\ initCalls' = [initCalls EXCEPT ![i] = @ + 1]
            /\ pc' = [pc EXCEPT ![i] = "init"]
       ELSE /\ pc' = [pc EXCEPT ![i] = AfterInit(i)]
            /\ UNCHANGED << tok, initCalls >>
    /\ UNCHANGED << gl, mode, impl, ret, ctx, runCalls, cleanupCalls, lateRuns >>
    /\ UNCHANGED << globalVars, listenerVars, outVars >>

\* Init returns err; procInit's deferred cancelInit() runs and procInit
\* returns; Run/RunWorker return procInit's error if there is one.
InitReturn(i, err) ==
    /\ alive
    /\ pc[i] = "init"
    /\ initErr' = [initErr EXCEPT ![i] = err]
    /\ IF ProcInitResult(err) # Nil
       THEN Return(i, ProcInitResult(err), Release(tok[i], "init"))
       ELSE /\ pc' = [pc EXCEPT ![i] = AfterInit(i)]
            /\ tok' = [tok EXCEPT ![i] = Release(tok[i], "init")]
            /\ UNCHANGED << gl, ret, ctx >>
    /\ UNCHANGED << mode, impl, runErrs, cleanupErr >>
    /\ UNCHANGED << globalVars, listenerVars, callVars >>

\* Run: the run context is made and impl.Run(runCtx) is called.
RunStage(i) ==
    /\ alive
    /\ pc[i] = "runStage"
    /\ tok' = [tok EXCEPT ![i]["run"] = RunCtx(i)]
    /\ runCalls' = [runCalls EXCEPT ![i] = @ + 1]
    /\ pc' = [pc EXCEPT ![i] = "run"]
    /\ UNCHANGED << gl, mode, impl, ret, ctx, initCalls, cleanupCalls, lateRuns >>
    /\ UNCHANGED << globalVars, listenerVars, outVars >>

\* Run: impl.Run returns err.
RunReturn(i, err) ==
    /\ alive
    /\ pc[i] = "run"
    /\ runErrs' = [runErrs EXCEPT ![i] = Append(@, err)]
    /\ IF RunFatal(err)
       THEN Return(i, RunError(err), tok[i])
       ELSE /\ pc' = [pc EXCEPT ![i] = "procCleanup"]
            /\ UNCHANGED << gl, ret, ctx, tok >>
    /\ UNCHANGED << mode, impl, initErr, cleanupErr >>
    /\ UNCHANGED << globalVars, listenerVars, callVars >>

\* RunWorker: top of the loop; the loop context is made and impl.Run(loopCtx)
\* is called.
LoopTop(i) ==
    /\ alive
    /\ pc[i] = "loopTop"
    /\ runCalls[i] < MaxIter
    /\ tok' = [tok EXCEPT ![i]["loop"] = LoopCtx(i)]
    /\ runCalls' = [runCalls EXCEPT ![i] = @ + 1]
    /\ lateRuns' = [lateRuns EXCEPT ![i] = IF ctx[i] = "canceled" THEN @ + 1 ELSE @]
    /\ pc' = [pc EXCEPT ![i] = "loopRun"]
    /\ UNCHANGED << gl, mode, impl, ret, ctx, initCalls, cleanupCalls >>
    /\ UNCHANGED << globalVars, listenerVars, outVars >>

\* RunWorker: impl.Run returns loopErr; cancelLoop(); break on an error.
LoopReturn(i, err) ==
    /\ alive
    /\ pc[i] = "loopRun"
    /\ runErrs' = [runErrs EXCEPT ![i] = Append(@, err)]
    /\ tok' = [tok EXCEPT ![i] = CancelTok(tok[i], "loop")]
    /\ pc' = [pc EXCEPT ![i] = IF LoopBreaks(err) THEN "loopExit" ELSE "loopCheck"]
    /\ UNCHANGED << gl, mode, impl, ret, ctx, initErr, cleanupErr >>
    /\ UNCHANGED << globalVars, listenerVars, callVars >>

\* RunWorker: select { case <-ctx.Done(): break LOOP; default: }; the loop
\* body, and loopCtx with it, is left.
LoopCheck(i) ==
    /\ alive
    /\ pc[i] = "loopCheck"
    /\ pc' = [pc EXCEPT ![i] = IF OuterDone(i) THEN "loopExit" ELSE "loopTop"]
    /\ tok' = [tok EXCEPT ![i] = Release(tok[i], "loop")]
    /\ UNCHANGED << gl, mode, impl, ret, ctx >>
    /\ UNCHANGED << globalVars, listenerVars, callVars, outVars >>

\* RunWorker: after the loop (loopCtx is out of scope), any error other than
\* context canceled is fatal.
LoopExit(i) ==
    /\ alive
    /\ pc[i] = "loopExit"
    /\ IF LoopFatal(LastRunErr(i))
       THEN Return(i, LoopError(LastRunErr(i)), Release(tok[i], "loop"))
       ELSE /\ pc' = [pc EXCEPT ![i] = "procCleanup"]
            /\ tok' = [tok EXCEPT ![i] = Release(tok[i], "loop")]
            /\ UNCHANGED << gl, ret, ctx >>
    /\ UNCHANGED << mode, impl >>
    /\ UNCHANGED << globalVars, listenerVars, callVars, outVars >>

\* procCleanup: the type assertion, the cleanup context and the call of
\* Cleanup; without Cleanup the invocation returns nil.
ProcCleanup(i) ==
    /\ alive
    /\ pc[i] = "procCleanup"
    /\ IF impl[i].cleanup
       THEN /\ tok' = [tok EXCEPT ![i]["cleanup"] = CleanupCtx(i)]
            /\ cleanupCalls' = [cleanupCalls EXCEPT ![i] = @ + 1]
            /\ pc' = [pc EXCEPT ![i] = "cleanup"]
            /\ UNCHANGED << gl, ret, ctx >>
       ELSE /\ Return(i, Nil, tok[i])
            /\ UNCHANGED cleanupCalls
    /\ UNCHANGED << mode, impl, initCalls, runCalls, lateRuns >>
    /\ UNCHANGED << globalVars, listenerVars, outVars >>

\* Cleanup returns err; procCleanup's deferred cancel() runs and procCleanup
\* returns; Run/RunWorker return procCleanup's result.
CleanupReturn(i, err) ==
    /\ alive
    /\ pc[i] = "cleanup"
    /\ cleanupErr' = [cleanupErr EXCEPT ![i] = err]
    /\ Return(i, ProcCleanupResult(err), Release(tok[i], "cleanup"))
    /\ UNCHANGED << mode, impl, initErr, runErrs >>
    /\ UNCHANGED << globalVars, listenerVars, callVars >>

\* The timer of a live phase context fires.
Timeout(i, k) ==
    /\ alive
    /\ tok[i][k].st = "live"
    /\ tok' = [tok EXCEPT ![i][k].st = "deadline"]
    /\ UNCHANGED << gl, mode, impl, pc, ret, ctx >>
    /\ UNCHANGED << globalVars, listenerVars, callVars, outVars >>

\* ---------------------------------------------------------------- signals
\* A signal's default action ends the process: its goroutines and their
\* state are gone.
Ended ==
    /\ gl' = Nobody
    /\ signals' = DefaultSignals
    /\ quit' = NoChan
    /\ handlers' = [c \in Invs |-> {}]
    /\ chanBuf' = [c \in Invs |-> NoSig]
    /\ mode' = [i \in Invs |-> "none"]
    /\ impl' = [i \in Invs |-> NoImpl]
    /\ pc' = [i \in Invs |-> "idle"]
    /\ ret' = [i \in Invs |-> Nil]
    /\ ctx' = [i \in Invs |-> "none"]
    /\ tok' = [i \in Invs |-> [k \in Kinds |-> NoTok]]
    /\ initCalls' = [i \in Invs |-> 0]
    /\ runCalls' = [i \in Invs |-> 0]
    /\ cleanupCalls' = [i \in Invs |-> 0]
    /\ onSignalCalls' = [i \in Invs |-> 0]
    /\ lateRuns' = [i \in Invs |-> 0]
    /\ initErr' = [i \in Invs |-> Nil]
    /\ runErrs' = [i \in Invs |-> << >>]
    /\ cleanupErr' = [i \in Invs |-> Nil]
    /\ lpc' = [i \in Invs |-> "none"]
    /\ lchan' = [i \in Invs |-> NoChan]
    /\ lsig' = [i \in Invs |-> NoSig]

\* The channels registered for signal s
Targets(s) == {c \in Invs : s \in handlers[c]}

\* The environment sends signal s to the process.  os/signal sends it,
\* without blocking, to every channel registered for it; a signal no channel
\* is registered for has its default action, which ends the process.
Signal(s) ==
    /\ alive
    /\ sent < MaxSignals
    /\ sent' = sent + 1
    /\ IF Targets(s) = {}
       THEN /\ alive' = FALSE
            /\ Ended
       ELSE /\ chanBuf' = [c \in Invs |-> IF c \in Targets(s) /\ chanBuf[c] = NoSig
                                          THEN s ELSE chanBuf[c]]
            /\ UNCHANGED << alive, signals, quit, handlers >>
            /\ UNCHANGED << gl, mode, impl, pc, ret, ctx, tok >>
            /\ UNCHANGED << listenerVars, callVars, outVars >>

\* ---------------------------------------------------------------- catchSignals
\* quit = make(chan os.Signal, 1)
ListenerMake(i) ==
    /\ alive
    /\ lpc[i] = "make"
    /\ quit' = i
    /\ lpc' = [lpc EXCEPT ![i] = "notify"]
    /\ UNCHANGED << signals, handlers, chanBuf, alive, sent, lchan, lsig, onSignalCalls >>
    /\ UNCHANGED << gl, mode, impl, pc, ret, ctx, tok >>
    /\ UNCHANGED << callVars, outVars >>

\* signal.Notify(quit, signals...)
ListenerNotify(i) ==
    /\ alive
    /\ lpc[i] = "notify"
    /\ handlers' = [handlers EXCEPT ![quit] = @ \cup signals]
    /\ lpc' = [lpc EXCEPT ![i] = "recv"]
    /\ UNCHANGED << signals, quit, chanBuf, alive, sent, lchan, lsig, onSignalCalls >>
    /\ UNCHANGED << gl, mode, impl, pc, ret, ctx, tok >>
    /\ UNCHANGED << callVars, outVars >>

\* sig := <-quit, the operand: the channel quit names now
ListenerRecv(i) ==
    /\ alive
    /\ lpc[i] = "recv"
    /\ lchan' = [lchan EXCEPT ![i] = quit]
    /\ lpc' = [lpc EXCEPT ![i] = "wait"]
    /\ UNCHANGED << lsig, onSignalCalls >>
    /\ UNCHANGED << gl, mode, impl, pc, ret, ctx, tok >>
    /\ UNCHANGED << globalVars, callVars, outVars >>

\* sig := <-quit, the receive: blocks until the channel holds a signal
ListenerWait(i) ==
    /\ alive
    /\ lpc[i] = "wait"
    /\ chanBuf[lchan[i]] # NoSig
    /\ lsig' = [lsig EXCEPT ![i] = chanBuf[lchan[i]]]
    /\ chanBuf' = [chanBuf EXCEPT ![lchan[i]] = NoSig]
    /\ lpc' = [lpc EXCEPT ![i] = "stop"]
    /\ UNCHANGED << signals, quit, handlers, alive, sent, lchan, onSignalCalls >>
    /\ UNCHANGED << gl, mode, impl, pc, ret, ctx, tok >>
    /\ UNCHANGED << callVars, outVars >>

\* signal.Stop(quit); with OnSignal implemented, implWithOnSignal.OnSignal(sig)
\* is called.
ListenerStop(i) ==
    /\ alive
    /\ lpc[i] = "stop"
    /\ handlers' = [handlers EXCEPT ![quit] = {}]
    /\ IF impl[i].onSignal
       THEN /\ onSignalCalls' = [onSignalCalls EXCEPT ![i] = @ + 1]
            /\ lpc' = [lpc EXCEPT ![i] = "inOnSignal"]
       ELSE /\ lpc' = [lpc EXCEPT ![i] = "cancel"]
            /\ UNCHANGED onSignalCalls
    /\ UNCHANGED << signals, quit, chanBuf, alive, sent, lchan, lsig >>
    /\ UNCHANGED << gl, mode, impl, pc, ret, ctx, tok >>
    /\ UNCHANGED << callVars, outVars >>

\* OnSignal returns
ListenerOnSignalReturn(i) ==
    /\ alive
    /\ lpc[i] = "inOnSignal"
    /\ lpc' = [lpc EXCEPT ![i] = "cancel"]
    /\ UNCHANGED << lchan, lsig, onSignalCalls >>
    /\ UNCHANGED << gl, mode, impl, pc, ret, ctx, tok >>
    /\ UNCHANGED << globalVars, callVars, outVars >>

\* catchSignals returns: the deferred cancel() cancels the root context
ListenerCancel(i) ==
    /\ alive
    /\ lpc[i] = "cancel"
    /\ ctx' = [ctx EXCEPT ![i] = ListenerCancelCtx(i)]
    /\ tok' = [tok EXCEPT ![i] = IF ListenerCancelCtx(i) = "canceled"
                                 THEN CancelChildren(tok[i]) ELSE tok[i]]
    /\ lpc' = [lpc EXCEPT ![i] = "exit"]
    /\ UNCHANGED << lchan, lsig, onSignalCalls >>
    /\ UNCHANGED << gl, mode, impl, pc, ret >>
    /\ UNCHANGED << globalVars, callVars, outVars >>

\* ---------------------------------------------------------------- specification
Controller(i) ==
    \/ Call(i)
    \/ \E m \in {"Run", "RunWorker"}, u \in Impls : Acquire(i, m, u)
    \/ ProcInit(i)
    \/ \E err \in Outcomes : InitReturn(i, err)
    \/ RunStage(i)
    \/ \E err \in Outcomes : RunReturn(i, err)
    \/ LoopTop(i)
    \/ \E err \in Outcomes : LoopReturn(i, err)
    \/ LoopCheck(i)
    \/ LoopExit(i)
    \/ ProcCleanup(i)
    \/ \E err \in Outcomes : CleanupReturn(i, err)
    \/ \E k \in Kinds : Timeout(i, k)

Listener(i) ==
    \/ ListenerMake(i)
    \/ ListenerNotify(i)
    \/ ListenerRecv(i)
    \/ ListenerWait(i)
    \/ ListenerStop(i)
    \/ ListenerOnSignalReturn(i)
    \/ ListenerCancel(i)

\* A process whose main goroutine calls Run or RunWorker once, as the
\* example programs do.
Next ==
    \/ Controller(1)
    \/ Listener(1)
    \/ \E s \in SentSignals : Signal(s)

Spec == Init /\ [][Next]_vars

\* The scheduler runs a listener goroutine that can take a step, and the
\* work unit's OnSignal returns.
ListenerFairness ==
    \A i \in Invs : /\ WF_vars(ListenerStop(i))
                    /\ WF_vars(ListenerOnSignalReturn(i))
                    /\ WF_vars(ListenerCancel(i))

\* A process whose main goroutine calls Run once.
RunController(i) ==
    \/ Call(i)
    \/ \E u \in Impls : Acquire(i, "Run", u)
    \/ ProcInit(i)
    \/ \E err \in Outcomes : InitReturn(i, err)
    \/ RunStage(i)
    \/ \E err \in Outcomes : RunReturn(i, err)
    \/ ProcCleanup(i)
    \/ \E err \in Outcomes : CleanupReturn(i, err)
    \/ \E k \in Kinds \ {"loop"} : Timeout(i, k)

RunNext ==
    \/ RunController(1)
    \/ Listener(1)
    \/ \E s \in SentSignals : Signal(s)

FairRunSpec == Init /\ [][RunNext]_vars /\ ListenerFairness

\* ---------------------------------------------------------------- SetSignals
\* The signal sets the program passes to SetSignals
SignalSets == {{SIGINT}, {SIGTERM}, {SIGINT, SIGTERM}}

\* SetSignals(sigs): signals = sigs, by any goroutine, with no lock held
SetSignals(sigs) ==
    /\ alive
    /\ sigs # signals
    /\ signals' = sigs
    /\ UNCHANGED << quit, handlers, chanBuf, alive, sent >>
    /\ UNCHANGED << gl, mode, impl, pc, ret, ctx, tok >>
    /\ UNCHANGED << listenerVars, callVars, outVars >>

\* Invocation i holds gl: it is between gl.Lock() and its return.
Active(i) ==
    pc[i] \in {"procInit", "init", "runStage", "run", "loopTop", "loopRun",
               "loopCheck", "loopExit", "procCleanup", "cleanup"}

\* A process whose main goroutine makes one call and which calls SetSignals
\* while that call is in progress.
ConfigNext ==
    \/ Next
    \/ \E sigs \in SignalSets : Active(1) /\ SetSignals(sigs)

ConfigSpec == Init /\ [][ConfigNext]_vars

\* ---------------------------------------------------------------- several calls
\* A work unit with Cleanup and OnSignal, without Init and run timeout
TheUnit == [init |-> FALSE, cleanup |-> TRUE, runTimeout |-> FALSE, onSignal |-> TRUE]

\* What the run operation of TheUnit returns
SerialOutcomes == {Nil, Failure}

\* One call of Run(TheUnit); its Cleanup succeeds.
SerialController(i) ==
    \/ Call(i)
    \/ Acquire(i, "Run", TheUnit)
    \/ ProcInit(i)
    \/ RunStage(i)
    \/ \E err \in SerialOutcomes : RunReturn(i, err)
    \/ ProcCleanup(i)
    \/ CleanupReturn(i, Nil)

\* A process whose goroutines call Run with the same work unit, at the same
\* time or one call after the other, and which is sent SIGINT.
SerialNext ==
    \/ \E i \in Invs : SerialController(i)
    \/ \E i \in Invs : Listener(i)
    \/ Signal(SIGINT)

SerialSpec == Init /\ [][SerialNext]_vars

\* ---------------------------------------------------------------- concurrent callers
\* A work unit with Init, Cleanup and a run timeout, without OnSignal
FullUnit == [init |-> TRUE, cleanup |-> TRUE, runTimeout |-> TRUE, onSignal |-> FALSE]

\* What Init, Run and Cleanup of FullUnit return
CallerOutcomes == {Nil, Canceled, Failure}

\* One call of Run(FullUnit) or RunWorker(FullUnit)
CallerController(i) ==
    \/ Call(i)
    \/ \E m \in {"Run", "RunWorker"} : Acquire(i, m, FullUnit)
    \/ ProcInit(i)
    \/ \E err \in CallerOutcomes : InitReturn(i, err)
    \/ RunStage(i)
    \/ \E err \in CallerOutcomes : RunReturn(i, err)
    \/ LoopTop(i)
    \/ \E err \in CallerOutcomes : LoopReturn(i, err)
    \/ LoopCheck(i)
    \/ LoopExit(i)
    \/ ProcCleanup(i)
    \/ \E err \in CallerOutcomes : CleanupReturn(i, err)

\* The listener of a process that is sent no signal: it blocks in <-quit.
IdleListener(i) ==
    \/ ListenerMake(i)
    \/ ListenerNotify(i)
    \/ ListenerRecv(i)

\* A process whose goroutines call Run and RunWorker at the same time; it is
\* sent no signal and no timer fires.
CallersNext ==
    \/ \E i \in Invs : CallerController(i)
    \/ \E i \in Invs : IdleListener(i)

\* sync.Mutex: a goroutine blocked in gl.Lock() gets the lock once it stays
\* free.
GuardFairness ==
    \A i \in Invs : WF_vars(\E m \in {"Run", "RunWorker"} : Acquire(i, m, FullUnit))

CallersSpec == Init /\ [][CallersNext]_vars /\ GuardFairness

\* ---------------------------------------------------------------- properties
Done(i) == pc[i] = "done"
Ran(i) == runErrs[i] # << >>

\* An outcome that is an error and neither a cancellation nor an expired
\* deadline
HardFailure(err) ==
    err # Nil /\ ~ErrorsIs(err, Canceled) /\ ~ErrorsIs(err, DeadlineExceeded)

\* C1: once Init has returned anything but nil (a failure, context.Canceled
\* or context.DeadlineExceeded alike), the invocation has returned, it has
\* called neither Run nor Cleanup, and its error is the init-phase message
\* wrapping what Init returned.
C1_InitFailureAborts ==
    \A i \in Invs :
        initErr[i] # Nil =>
            /\ Done(i)
            /\ runCalls[i] = 0
            /\ cleanupCalls[i] = 0
            /\ ret[i] = << InitMsg >> \o initErr[i]
            /\ ErrorsIs(ret[i], initErr[i])

C1_Witness ==
    \E i \in Invs :
        /\ Done(i)
        /\ mode[i] = "RunWorker"
        /\ impl[i].cleanup
        /\ initCalls[i] = 1
        /\ initErr[i] = Canceled
        /\ ret[i] = << InitMsg, "context canceled" >>

\* C2: in Run and in RunWorker, once the run operation (the last iteration)
\* has returned a hard failure, Cleanup is never called and the invocation
\* returns an error.
C2_RunFailureSkipsCleanup ==
    \A i \in Invs :
        (Ran(i) /\ HardFailure(LastRunErr(i))) =>
            /\ cleanupCalls[i] = 0
            /\ pc[i] \in {"loopExit", "done"}
            /\ Done(i) => ret[i] # Nil

C2_Witness ==
    \E i \in Invs :
        /\ Done(i)
        /\ mode[i] = "RunWorker"
        /\ impl[i].cleanup
        /\ Ran(i)
        /\ LastRunErr(i) = Failure
        /\ cleanupCalls[i] = 0
        /\ ret[i] # Nil

\* C3: in Run with a work unit that has Cleanup, Cleanup is called only after
\* the run operation has returned and at most once, and when the run
\* operation returned nil or context.Canceled the invocation has called it
\* exactly once by the time it returns.
C3_CleanupOnceAfterRun ==
    \A i \in Invs :
        (mode[i] = "Run" /\ impl[i].cleanup) =>
            /\ cleanupCalls[i] <= 1
            /\ cleanupCalls[i] > 0 => (Len(runErrs[i]) = 1 /\ runCalls[i] = 1)
            /\ (Done(i) /\ Ran(i) /\ runErrs[i][1] \in {Nil, Canceled})
                   => cleanupCalls[i] = 1

C3_Witness ==
    \E i \in Invs :
        /\ Done(i)
        /\ mode[i] = "Run"
        /\ impl[i].cleanup
        /\ runErrs[i] = << Canceled >>
        /\ cleanupCalls[i] = 1

\* C4 as stated: when the run operation (the last iteration) returned
\* context.DeadlineExceeded, Cleanup is called if implemented and the
\* invocation returns nil when Cleanup succeeded.
C4_DeadlineIsSoft ==
    \A i \in Invs :
        (Done(i) /\ Ran(i) /\ LastRunErr(i) = DeadlineExceeded) =>
            /\ impl[i].cleanup => cleanupCalls[i] = 1
            /\ cleanupErr[i] = Nil => ret[i] = Nil

\* C4, amended: when the run operation (the last iteration) returned
\* context.DeadlineExceeded, the outcome is fatal in Run and in RunWorker:
\* Cleanup is not called and the invocation returns that error.
C4_DeadlineIsFatal ==
    \A i \in Invs :
        (Ran(i) /\ LastRunErr(i) = DeadlineExceeded) =>
            /\ cleanupCalls[i] = 0
            /\ pc[i] \in {"loopExit", "done"}
            /\ Done(i) => ret[i] = DeadlineExceeded

C4_Witness ==
    \E i \in Invs :
        /\ Done(i)
        /\ mode[i] = "RunWorker"
        /\ impl[i].cleanup
        /\ Ran(i)
        /\ LastRunErr(i) = DeadlineExceeded
        /\ cleanupCalls[i] = 0
        /\ ret[i] = DeadlineExceeded

\* C5: when the run operation of Run returned context.DeadlineExceeded, the
\* error Run returns is context.DeadlineExceeded itself, not wrapped.
C5_DeadlineReturnedUnchanged ==
    \A i \in Invs :
        (mode[i] = "Run" /\ Done(i) /\ runErrs[i] = << DeadlineExceeded >>) =>
            ret[i] = << "context deadline exceeded" >>

\* The run context expired and the run operation returned its error.
C5_Witness ==
    \E i \in Invs :
        /\ mode[i] = "Run"
        /\ Done(i)
        /\ impl[i].runTimeout
        /\ tok[i]["run"].st = "deadline"
        /\ runErrs[i] = << DeadlineExceeded >>
        /\ ret[i] = DeadlineExceeded

\* A work unit that implements Run only
OnlyRunnable(i) ==
    ~impl[i].init /\ ~impl[i].cleanup /\ ~impl[i].runTimeout /\ ~impl[i].onSignal

\* C6 as stated: for a work unit that implements Run only, Run returns nil
\* exactly when the run operation returned nil, and neither Init nor Cleanup
\* is called.
C6_SucceedsIffRunSucceeds ==
    \A i \in Invs :
        (mode[i] = "Run" /\ OnlyRunnable(i)) =>
            /\ initCalls[i] = 0
            /\ cleanupCalls[i] = 0
            /\ Done(i) => (ret[i] = Nil <=> runErrs[i] = << Nil >>)

\* C6, amended: for a work unit that implements Run only, Run returns nil
\* exactly when the run operation returned nil or an error that matches
\* context.Canceled, and neither Init nor Cleanup is called.
C6_SucceedsIffRunSucceedsOrCanceled ==
    \A i \in Invs :
        (mode[i] = "Run" /\ OnlyRunnable(i)) =>
            /\ initCalls[i] = 0
            /\ cleanupCalls[i] = 0
            /\ Done(i) =>
                   /\ Len(runErrs[i]) = 1
                   /\ ret[i] = Nil <=>
                          (runErrs[i][1] = Nil \/ ErrorsIs(runErrs[i][1], Canceled))

C6_Witness ==
    \E i \in Invs :
        /\ mode[i] = "Run"
        /\ OnlyRunnable(i)
        /\ Done(i)
        /\ runErrs[i] = << Canceled >>
        /\ ret[i] = Nil
        /\ initCalls[i] = 0
        /\ cleanupCalls[i] = 0

\* The listener of invocation i has received no signal.
NoSignalCaught(i) == lpc[i] \in {"make", "notify", "recv", "wait"}

\* C7: in RunWorker every iteration but the last returned nil; when the last
\* one, iteration n, returned context.Canceled, the run operation was called
\* exactly n times, and by the time RunWorker returns Cleanup (if implemented)
\* was called exactly once and the result is nil if Cleanup succeeded.
C7_LoopUntilCanceled ==
    \A i \in Invs :
        mode[i] = "RunWorker" =>
            /\ \A k \in 1..(Len(runErrs[i]) - 1) : runErrs[i][k] = Nil
            /\ (Ran(i) /\ LastRunErr(i) = Canceled) =>
                   /\ runCalls[i] = Len(runErrs[i])
                   /\ pc[i] \in {"loopExit", "procCleanup", "cleanup", "done"}
                   /\ Done(i) =>
                          /\ cleanupCalls[i] = (IF impl[i].cleanup THEN 1 ELSE 0)
                          /\ cleanupErr[i] = Nil => ret[i] = Nil

C7_Witness ==
    \E i \in Invs :
        /\ mode[i] = "RunWorker"
        /\ Done(i)
        /\ NoSignalCaught(i)
        /\ impl[i].cleanup
        /\ runErrs[i] = << Nil, Canceled >>
        /\ runCalls[i] = 2
        /\ cleanupCalls[i] = 1
        /\ ret[i] = Nil

\* C8: in RunWorker, when iteration k returned a hard failure, iteration k is
\* the last one (no iteration k+1 is started), Cleanup is not called and
\* RunWorker returns that failure.
C8_LoopStopsOnFailure ==
    \A i \in Invs :
        mode[i] = "RunWorker" =>
            \A k \in 1..Len(runErrs[i]) :
                HardFailure(runErrs[i][k]) =>
                    /\ k = Len(runErrs[i])
                    /\ runCalls[i] = k
                    /\ pc[i] \in {"loopExit", "done"}
                    /\ cleanupCalls[i] = 0
                    /\ Done(i) => ret[i] = runErrs[i][k]

C8_Witness ==
    \E i \in Invs :
        /\ mode[i] = "RunWorker"
        /\ Done(i)
        /\ impl[i].cleanup
        /\ runErrs[i] = << Nil, Failure >>
        /\ runCalls[i] = 2
        /\ cleanupCalls[i] = 0
        /\ ret[i] = Failure

\* C9: in RunWorker the context of an executing iteration is never canceled,
\* whatever the root context's state: it is live or expired.  The loop is
\* left after an iteration that returned nil only when the listener caught a
\* signal and canceled the root context, and Cleanup (if implemented) is then
\* called once.
C9_SignalWaitsForIteration ==
    \A i \in Invs :
        mode[i] = "RunWorker" =>
            /\ pc[i] = "loopRun" => tok[i]["loop"].st \in {"live", "deadline"}
            /\ (Ran(i) /\ LastRunErr(i) = Nil
                  /\ pc[i] \in {"loopExit", "procCleanup", "cleanup", "done"}) =>
                   /\ lpc[i] = "exit"
                   /\ pc[i] # "done" => ctx[i] = "canceled"
                   /\ pc[i] \in {"cleanup", "done"} =>
                          cleanupCalls[i] = (IF impl[i].cleanup THEN 1 ELSE 0)

\* The signal was caught and the root context canceled while an iteration
\* executes; the iteration's context is still live.
C9_Witness ==
    \E i \in Invs :
        /\ mode[i] = "RunWorker"
        /\ pc[i] = "loopRun"
        /\ lpc[i] = "exit"
        /\ ctx[i] = "canceled"
        /\ tok[i]["loop"].st = "live"

\* Invocation i is a Run without run timeout whose run operation is executing.
RunningUntimed(i) == mode[i] = "Run" /\ ~impl[i].runTimeout /\ pc[i] = "run"

\* The listener of invocation i has received a signal and not yet returned.
SignalInHand(i) == lpc[i] \in {"stop", "inOnSignal", "cancel"}

Wraps(err, cause) ==
    /\ cause # Nil
    /\ Len(err) = Len(cause) + 1
    /\ SubSeq(err, 2, Len(err)) = cause

\* C13 as stated: the error an invocation returned is nil, or it wraps what
\* the failed phase (Init, the run operation or Cleanup) returned behind a
\* message for that phase.
C13_EveryErrorWrapped ==
    \A i \in Invs :
        Done(i) =>
            \/ ret[i] = Nil
            \/ Wraps(ret[i], initErr[i])
            \/ Ran(i) /\ Wraps(ret[i], LastRunErr(i))
            \/ Wraps(ret[i], cleanupErr[i])

\* C13, amended: an invocation that returned gives the error of Init behind
\* the init message, the error of Cleanup behind the cleanup message, and a
\* fatal error of the run operation (the last iteration) as the work unit
\* returned it, with no message in front; it returns nil exactly when no
\* phase failed.
C13_ErrorsByPhase ==
    \A i \in Invs :
        Done(i) =>
            /\ initErr[i] # Nil =>
                   ret[i] = << "mproc: failed init" >> \o initErr[i]
            /\ cleanupErr[i] # Nil =>
                   ret[i] = << "mproc: failed cleanup" >> \o cleanupErr[i]
            /\ (Ran(i) /\ LastRunErr(i) # Nil /\ ~ErrorsIs(LastRunErr(i), Canceled)) =>
                   ret[i] = LastRunErr(i)
            /\ ret[i] = Nil <=>
                   /\ initErr[i] = Nil
                   /\ cleanupErr[i] = Nil
                   /\ Ran(i)
                   /\ (LastRunErr(i) = Nil \/ ErrorsIs(LastRunErr(i), Canceled))

\* Cleanup failed after a run operation that was canceled: the cleanup
\* message is in front of Cleanup's error.
C13_Witness ==
    \E i \in Invs :
        /\ Done(i)
        /\ Ran(i)
        /\ LastRunErr(i) = Canceled
        /\ cleanupErr[i] = Failure
        /\ ret[i] = << "mproc: failed cleanup", "work unit failure" >>

\* C16: whenever the listener of an invocation has called OnSignal (the call
\* executes or has returned), the root context of that invocation is
\* already canceled.
C16_CanceledBeforeOnSignal ==
    \A i \in Invs :
        (lpc[i] = "inOnSignal" \/ onSignalCalls[i] > 0) => ctx[i] = "canceled"

\* C18: the context passed to Cleanup derives from context.Background(), not
\* from the root context, and while Cleanup executes it is live or expired,
\* never canceled, whether or not the listener caught a signal and canceled
\* the root context.
C18_CleanupTokenFresh ==
    \A i \in Invs :
        /\ tok[i]["cleanup"].st # "none" => tok[i]["cleanup"].parent = "background"
        /\ pc[i] = "cleanup" =>
               /\ tok[i]["cleanup"].st \in {"live", "deadline"}
               /\ TokErr(i, "cleanup") # Canceled

\* Cleanup executes with a live context after the listener caught a signal
\* and canceled the root context.
C18_Witness ==
    \E i \in Invs :
        /\ pc[i] = "cleanup"
        /\ lpc[i] = "exit"
        /\ lsig[i] # NoSig
        /\ ctx[i] = "canceled"
        /\ tok[i]["cleanup"].st = "live"

\* C20: in RunWorker at most one iteration is started with the root context
\* canceled, and the loop is at the point of starting an iteration with the
\* root context canceled only when no such iteration was started before: the
\* check after an iteration that follows the cancellation leaves the loop.
C20_OneLateIteration ==
    \A i \in Invs :
        mode[i] = "RunWorker" =>
            /\ lateRuns[i] <= 1
            /\ (pc[i] = "loopTop" /\ ctx[i] = "canceled") => lateRuns[i] = 0
            /\ (pc[i] = "loopCheck" /\ lateRuns[i] = 1) => ctx[i] = "canceled"

\* The listener canceled the root context between the check after the first
\* iteration and the start of the second, which ran and was the last.
C20_Witness ==
    \E i \in Invs :
        /\ mode[i] = "RunWorker"
        /\ lateRuns[i] = 1
        /\ runCalls[i] = 2
        /\ runErrs[i] = << Nil, Nil >>
        /\ lpc[i] = "exit"
        /\ pc[i] = "loopExit"

\* Invocation i has returned.
Returned(i) == pc[i] \in {"done", "gone"}

\* C11: at most one invocation of Run/RunWorker is between gl.Lock() and its
\* return, and it is the one holding gl; while it is, every other invocation
\* has not called yet, is blocked in gl.Lock() or has returned, and a
\* blocked one has called none of Init, Run and Cleanup.
C11_OneAtATime ==
    /\ \A i, j \in Invs : (Active(i) /\ Active(j)) => i = j
    /\ \A i \in Invs : Active(i) <=> gl = i
    /\ \A i \in Invs :
           pc[i] \in {"idle", "lock"} =>
               /\ initCalls[i] = 0 /\ runCalls[i] = 0 /\ cleanupCalls[i] = 0
               /\ lpc[i] = "none"

\* The second caller is blocked in gl.Lock() while the first executes Init.
C11_Witness ==
    /\ pc[1] = "init"
    /\ gl = 1
    /\ pc[2] = "lock"
    /\ initCalls[2] = 0

\* C12: an invocation that has returned does not hold gl; gl is released
\* only by a return and every return (after an Init failure, a run failure,
\* a Cleanup failure or success) releases it; an invocation blocked in
\* gl.Lock() when every other invocation has returned eventually holds gl.
C12_GuardReleased ==
    /\ [](\A i \in Invs : Returned(i) => gl # i)
    /\ [][\A i \in Invs :
             /\ (gl = i /\ gl' # i) => (pc[i] # "done" /\ pc'[i] = "done")
             /\ (pc[i] # "done" /\ pc'[i] = "done") => (gl = i /\ gl' = Nobody)]_vars
    /\ \A i \in Invs :
           (pc[i] = "lock" /\ \A j \in Invs \ {i} : Returned(j)) ~> (gl = i)

\* The first invocation returned after a Cleanup failure and released gl
\* while the second is blocked in gl.Lock().
C12_Witness ==
    /\ pc[1] = "done"
    /\ cleanupErr[1] = Failure
    /\ ret[1] = << "mproc: failed cleanup", "work unit failure" >>
    /\ gl = Nobody
    /\ pc[2] = "lock"

\* The calls of OnSignal made by the listeners js
RECURSIVE OnSignalTotal(_)
OnSignalTotal(js) ==
    IF js = {} THEN 0
    ELSE LET j == CHOOSE x \in js : TRUE
         IN onSignalCalls[j] + OnSignalTotal(js \ {j})

\* C14: while an invocation whose work unit has OnSignal is between its
\* start and its return, OnSignal was called on that work unit at most once
\* since the start, by a listener that received a configured signal; the
\* process passes the same work unit to every invocation.
C14_OnSignalOncePerRun ==
    \A i \in Invs :
        (Active(i) /\ impl[i].onSignal) =>
            /\ OnSignalTotal(Invs) <= 1
            /\ \A j \in Invs : onSignalCalls[j] > 0 => lsig[j] \in signals

\* C15: once the listener of a run in progress has caught a signal and gone
\* past signal.Stop, no channel of the process is registered for any signal:
\* the next signal has its default action.
C15_SecondSignalDefault ==
    \A i \in Invs :
        (Active(i) /\ lpc[i] \in {"inOnSignal", "cancel", "exit"}) =>
            \A c \in Invs : handlers[c] = {}

\* C17: the listener of an invocation that has returned has ended, and at
\* most one listener of the process is receiving from its channel.
C17_ListenerEndsWithRun ==
    /\ \A i \in Invs : Returned(i) => lpc[i] = "exit"
    /\ Cardinality({i \in Invs : lpc[i] = "wait"}) <= 1

\* C19: the channel of the listener of a run is registered for the signals
\* configured when the run started, whatever SetSignals was called with
\* since; the process calls SetSignals only while its one run is in
\* progress, so these are the default signals.
C19_ConfigReadAtStart ==
    \A i \in Invs :
        lpc[i] \in {"recv", "wait"} => handlers[i] = DefaultSignals

====
